---- MODULE Spec2Model ----
(***************************************************************************)
(* Line wrapping of tex-fmt (src/wrap.rs) and the derivation of wrap_min   *)
(* in Cli::resolve (src/parse.rs).                                         *)
(*                                                                         *)
(* A line is a sequence of characters (Rust `line.chars()`); every index   *)
(* is a 0-based character index, so character i of the source is line[i+1] *)
(* here.  Option<T> is modelled as a set with at most one element.         *)
(***************************************************************************)
EXTENDS Integers, Sequences, FiniteSets, TLC

VARIABLES cli, exit_code, line, state, args, logs, needs, wrap_point,
          comment_index, line_start, ret, pc

vars == <<cli, exit_code, line, state, args, logs, needs, wrap_point,
          comment_index, line_start, ret, pc>>

(***************************************************************************)
(* Bounds of the model.                                                    *)
(***************************************************************************)
MaxLen == 5
MaxWrap == 4

(***************************************************************************)
(* Option<T>                                                               *)
(***************************************************************************)
None == {}
Some(x) == {x}
is_some(o) == o /= {}
unwrap(o) == CHOOSE x \in o : TRUE

(***************************************************************************)
(* Characters.  "é" is a character whose UTF-8 encoding has two bytes, so  *)
(* that the character count and the byte length of a line differ.          *)
(***************************************************************************)
Chars == {"a", " ", "\\", "%", "é"}
len_utf8(c) == IF c = "é" THEN 2 ELSE 1

Lines == UNION {[1..n -> Chars] : n \in 0..MaxLen}

\* line.chars().count()
chars_count(l) == Len(l)

\* the length of the line in bytes (what str::len would give)
RECURSIVE byte_len(_)
byte_len(l) == IF l = <<>> THEN 0 ELSE len_utf8(Head(l)) + byte_len(Tail(l))

\* line.chars().take(p).collect()
take(l, p) == SubSeq(l, 1, IF p < Len(l) THEN p ELSE Len(l))

\* line.chars().skip(p).collect()
skip(l, p) == SubSeq(l, (IF p < Len(l) THEN p ELSE Len(l)) + 1, Len(l))

(***************************************************************************)
(* needs_wrap                                                              *)
(***************************************************************************)
needs_wrap_bytes(l, st, a) ==
    /\ ~a.keep
    /\ ~st.verbatim
    /\ ~st.ignore
    /\ byte_len(l) > a.wrap

needs_wrap(l, st, a) ==
    /\ ~a.keep
    /\ ~st.verbatim
    /\ ~st.ignore
    /\ chars_count(l) > a.wrap

(***************************************************************************)
(* find_wrap_point                                                         *)
(***************************************************************************)
\* the loop's early exit
loop_break_gt(i, a, wp) == i > a.wrap_min /\ is_some(wp)

loop_break(i, a, wp) == i >= a.wrap_min /\ is_some(wp)

\* an unescaped space
break_space_any(c, prev_char) == c = " "

break_space(c, prev_char) == c = " " /\ prev_char /= Some("\\")

\* a character after which breaking is allowed
sets_after_char_any(c) == TRUE

sets_after_char(c) == c /= "%"

\* one run of the for loop from character index i on
RECURSIVE find_wrap_loop(_, _, _, _, _, _)
find_wrap_loop(l, a, i, wp, after_char, prev_char) ==
    IF i >= Len(l) THEN wp
    ELSE IF loop_break(i, a, wp) THEN wp
    ELSE LET c == l[i + 1]
         IN  IF break_space(c, prev_char)
             THEN find_wrap_loop(l, a, i + 1,
                                 IF after_char THEN Some(i) ELSE wp,
                                 after_char, Some(c))
             ELSE IF sets_after_char(c)
             THEN find_wrap_loop(l, a, i + 1, wp, TRUE, Some(c))
             ELSE find_wrap_loop(l, a, i + 1, wp, after_char, Some(c))

find_wrap_point(l, a) == find_wrap_loop(l, a, 0, None, FALSE, None)

(***************************************************************************)
(* find_comment_index (crate::comments): the character index of the first  *)
(* comment marker that is not preceded by a backslash.                     *)
(***************************************************************************)
find_comment_index(l) ==
    LET unescaped == {i \in 0..(Len(l) - 1) :
                         l[i + 1] = "%" /\ (i = 0 \/ l[i] /= "\\")}
    IN  IF unescaped = {} THEN None
        ELSE Some(CHOOSE i \in unescaped : \A j \in unescaped : i <= j)

(***************************************************************************)
(* record_line_log (crate::logging): push one line-scoped record           *)
(***************************************************************************)
record_line_log(lg, level, file, linum_new, linum_old, l, message) ==
    Append(lg, [level |-> level, file |-> file, linum_new |-> linum_new,
                linum_old |-> linum_old, line |-> l, message |-> message])

\* record_file_log (crate::logging): push one file-scoped record
record_file_log(lg, level, file, message) ==
    Append(lg, [level |-> level, file |-> file, message |-> message])

(***************************************************************************)
(* apply_wrap                                                              *)
(***************************************************************************)
\* if args.trace { record_line_log(.., Trace, .., "Wrapping long line.") }
trace_log_always(l, st, file, a, lg) ==
    record_line_log(lg, "Trace", file, st.linum_new, st.linum_old, l,
                    "Wrapping long line.")

trace_log(l, st, file, a, lg) ==
    IF a.trace
    THEN record_line_log(lg, "Trace", file, st.linum_new, st.linum_old, l,
                         "Wrapping long line.")
    ELSE lg

\* the match arm `_`: no wrap point, or one beyond args.wrap
cannot_wrap_lt(wp, a) == ~(is_some(wp) /\ unwrap(wp) < a.wrap)

cannot_wrap(wp, a) == ~(is_some(wp) /\ unwrap(wp) <= a.wrap)

warn_log(l, st, file, a, lg, wp) ==
    IF cannot_wrap(wp, a)
    THEN record_line_log(lg, "Warn", file, st.linum_new, st.linum_old, l,
                         "Line cannot be wrapped.")
    ELSE lg

\* comment_index.line_start_of("", |c| if p > c { "%" } else { "" })
line_start_any_comment(ci, p) == IF is_some(ci) THEN <<"%">> ELSE <<>>

line_start_of(ci, p) ==
    IF is_some(ci) /\ p > unwrap(ci) THEN <<"%">> ELSE <<>>

\* line.chars().skip(p), with line_start inserted at position 0
line_2_drop(l, p, ls) == ls \o skip(l, p + 1)

line_2(l, p, ls) == ls \o skip(l, p)

line_1(l, p) == take(l, p)

\* wrap_point.map(|p| { .. (line_1, line_2) })
split(l, wp, ci) ==
    IF is_some(wp)
    THEN LET p == unwrap(wp)
         IN  Some(<<line_1(l, p), line_2(l, p, line_start_of(ci, p))>>)
    ELSE None

\* the log after apply_wrap
apply_wrap_logs(l, st, file, a, lg) ==
    warn_log(l, st, file, a, trace_log(l, st, file, a, lg),
             find_wrap_point(l, a))

(***************************************************************************)
(* Cli::resolve                                                            *)
(***************************************************************************)
U8 == 256

resolve_wrap_min_low(wrap) == IF wrap >= 5 THEN (wrap - 10) % U8 ELSE wrap

resolve_wrap_min(wrap) == IF wrap >= 50 THEN (wrap - 10) % U8 ELSE wrap

NoFiles == "No files specified. Either provide filenames or provide --stdin."
StdinFiles == "Do not provide file name(s) when using --stdin."

resolve_logs(c, lg) ==
    LET stdin == c.stdin
        l1 == IF ~stdin /\ c.files = <<>>
              THEN record_file_log(lg, "Error", "", NoFiles) ELSE lg
    IN  IF stdin /\ c.files /= <<>>
        THEN record_file_log(l1, "Error", "", StdinFiles) ELSE l1

resolve_exit_code(c) ==
    IF (~c.stdin /\ c.files = <<>>) \/ (c.stdin /\ c.files /= <<>>)
    THEN 1 ELSE 0

(***************************************************************************)
(* State                                                                   *)
(***************************************************************************)
File == "main.tex"

\* Cli::new(), the configuration the tests start from
CliNew == [check |-> FALSE, print |-> FALSE, keep |-> FALSE,
           verbose |-> FALSE, stdin |-> FALSE, quiet |-> FALSE,
           trace |-> FALSE, files |-> <<>>, tab |-> 2, usetabs |-> FALSE,
           wrap |-> 80, wrap_min |-> 70]

\* a parsed command line: wrap_min is skipped by the parser
Clis == {[CliNew EXCEPT !.keep = k, !.trace = t, !.verbose = v,
                        !.stdin = s, !.files = f, !.wrap = w,
                        !.wrap_min = 0] :
            k \in BOOLEAN, t \in BOOLEAN, v \in BOOLEAN, s \in BOOLEAN,
            f \in {<<>>, <<File>>}, w \in 0..(U8 - 1)}

\* configurations of the wrapping functions, wrap_min <= wrap
Configs(keeps) ==
    {[keep |-> k, trace |-> t, wrap |-> w, wrap_min |-> m] :
        k \in keeps, t \in BOOLEAN, w \in 0..MaxWrap, m \in 0..MaxWrap}

States(flags) ==
    {[verbatim |-> v, ignore |-> g, linum_new |-> 1, linum_old |-> 1] :
        v \in flags, g \in flags}

Idle ==
    /\ needs = FALSE
    /\ wrap_point = None
    /\ comment_index = None
    /\ line_start = <<>>
    /\ ret = None
    /\ exit_code = 0
    /\ logs = <<>>

\* the wrapping functions on every line and configuration
Init ==
    /\ cli = CliNew
    /\ line \in Lines
    /\ state \in States({FALSE})
    /\ args \in {a \in Configs({FALSE}) : a.wrap_min <= a.wrap}
    /\ pc = "line"
    /\ Idle

\* apply_wrap(line, state, file, args, logs)
ApplyWrap ==
    /\ pc = "line"
    /\ pc' = "wrapped"
    /\ wrap_point' = find_wrap_point(line, args)
    /\ comment_index' = find_comment_index(line)
    /\ line_start' = IF is_some(find_wrap_point(line, args))
                     THEN line_start_of(find_comment_index(line),
                                 unwrap(find_wrap_point(line, args)))
                     ELSE <<>>
    /\ logs' = apply_wrap_logs(line, state, File, args, logs)
    /\ ret' = split(line, find_wrap_point(line, args),
                    find_comment_index(line))
    /\ UNCHANGED <<cli, exit_code, line, state, args, needs>>

\* the caller takes the tail as its next line while it is still too long
Requeue ==
    /\ pc = "wrapped"
    /\ is_some(ret)
    /\ needs_wrap(unwrap(ret)[2], state, args)
    /\ line' = unwrap(ret)[2]
    /\ pc' = "line"
    /\ UNCHANGED <<cli, exit_code, state, args, logs, needs, wrap_point,
                   comment_index, line_start, ret>>

Next == ApplyWrap \/ Requeue

Spec == Init /\ [][Next]_vars

\* needs_wrap on every line, line context and configuration
InitNeeds ==
    /\ cli = CliNew
    /\ line \in Lines
    /\ state \in States(BOOLEAN)
    /\ args \in {a \in Configs(BOOLEAN) : a.wrap_min = a.wrap /\ ~a.trace}
    /\ pc = "line"
    /\ Idle

NeedsWrap ==
    /\ pc = "line"
    /\ pc' = "checked"
    /\ needs' = needs_wrap(line, state, args)
    /\ UNCHANGED <<cli, exit_code, line, state, args, logs, wrap_point,
                   comment_index, line_start, ret>>

NextNeeds == NeedsWrap

SpecNeeds == InitNeeds /\ [][NextNeeds]_vars

\* Cli::resolve on every parsed command line
InitResolve ==
    /\ cli \in Clis
    /\ line = <<>>
    /\ state \in States({FALSE})
    /\ args = [keep |-> FALSE, trace |-> FALSE, wrap |-> 0, wrap_min |-> 0]
    /\ pc = "parsed"
    /\ Idle

Resolve ==
    /\ pc = "parsed"
    /\ pc' = "resolved"
    /\ cli' = [cli EXCEPT !.verbose = cli.verbose \/ cli.trace,
                          !.print = cli.print \/ cli.stdin,
                          !.wrap_min = resolve_wrap_min(cli.wrap)]
    /\ logs' = resolve_logs(cli, logs)
    /\ exit_code' = resolve_exit_code(cli)
    /\ UNCHANGED <<line, state, args, needs, wrap_point, comment_index,
                   line_start, ret>>

NextResolve == Resolve

SpecResolve == InitResolve /\ [][NextResolve]_vars

(***************************************************************************)
(* Vocabulary of the properties                                            *)
(***************************************************************************)
Indices(l) == 0..(Len(l) - 1)

\* character i is a space that no backslash immediately precedes
UnescapedSpace(l, i) == l[i + 1] = " " /\ (i = 0 \/ l[i] /= "\\")

\* character k is neither the comment marker nor an unescaped space
ContentChar(l, k) == l[k + 1] /= "%" /\ ~UnescapedSpace(l, k)

\* an unescaped space with a content character somewhere before it
Qualifying(l) ==
    {i \in Indices(l) :
        UnescapedSpace(l, i) /\ \E k \in 0..(i - 1) : ContentChar(l, k)}

QualBelowMin == {i \in Qualifying(line) : i < args.wrap_min}
QualFromMin == {i \in Qualifying(line) : i >= args.wrap_min}

Min(S) == CHOOSE x \in S : \A y \in S : x <= y
Max(S) == CHOOSE x \in S : \A y \in S : x >= y

\* a step of apply_wrap, and the entries it appended
ApplyWrapStep == pc = "line" /\ pc' = "wrapped"
Appended == SubSeq(logs', Len(logs) + 1, Len(logs'))
CountLevel(lg, level) == Cardinality({n \in 1..Len(lg) : lg[n].level = level})

\* C1: needs_wrap is true exactly when keep, the verbatim flag and the
\* ignore flag are all false and the line has more than wrap characters,
\* counted as characters and not as bytes.
C1_NeedsWrapIff ==
    pc = "checked" =>
        /\ needs <=> (/\ ~args.keep
                      /\ ~state.verbatim
                      /\ ~state.ignore
                      /\ Len(line) > args.wrap)
        /\ Len(line) = args.wrap => ~needs
        /\ (args.keep \/ state.verbatim \/ state.ignore) => ~needs

\* a line of exactly wrap characters, longer than wrap in bytes, is left
C1_Witness ==
    /\ pc = "checked"
    /\ ~needs
    /\ ~args.keep /\ ~state.verbatim /\ ~state.ignore
    /\ Len(line) = args.wrap
    /\ byte_len(line) > args.wrap

\* C2 (as stated): with wrap_min <= wrap, when a qualifying space exists
\* at an index >= wrap_min, find_wrap_point returns the smallest such index.
C2_FirstFromMin ==
    (pc = "wrapped" /\ args.wrap_min <= args.wrap /\ QualFromMin /= {}) =>
        wrap_point = Some(Min(QualFromMin))

\* C2 (amended): find_wrap_point returns the greatest qualifying index below
\* wrap_min when there is one, and only otherwise the smallest qualifying
\* index at or after wrap_min.
C2_LastBelowMinElseFirst ==
    (pc = "wrapped" /\ args.wrap_min <= args.wrap) =>
        /\ QualBelowMin /= {} => wrap_point = Some(Max(QualBelowMin))
        /\ (QualBelowMin = {} /\ QualFromMin /= {}) =>
               wrap_point = Some(Min(QualFromMin))

\* qualifying spaces on both sides of wrap_min, the earlier one returned
C2_Witness ==
    /\ pc = "wrapped"
    /\ QualBelowMin /= {}
    /\ QualFromMin /= {}
    /\ wrap_point = Some(Max(QualBelowMin))

\* C3: a returned index designates a space whose immediately preceding
\* character is not a backslash.
C3_NeverEscapedSpace ==
    (pc = "wrapped" /\ is_some(wrap_point)) =>
        LET p == unwrap(wrap_point)
        IN  /\ p \in Indices(line)
            /\ line[p + 1] = " "
            /\ p > 0
            /\ line[p] /= "\\"

\* an escaped space was passed over and a later unescaped one returned
C3_Witness ==
    /\ pc = "wrapped"
    /\ is_some(wrap_point)
    /\ \E i \in 1..(unwrap(wrap_point) - 1) :
           line[i + 1] = " " /\ line[i] = "\\"

\* C4: find_wrap_point returns none exactly when the line has no unescaped
\* space after its first content character ('%' and unescaped spaces are
\* not content).
C4_NoneIffNoQualifying ==
    pc = "wrapped" => (wrap_point = None <=> Qualifying(line) = {})

\* a marker, a space and a token: spaces, but none after content
C4_Witness ==
    /\ pc = "wrapped"
    /\ wrap_point = None
    /\ Len(line) >= 3
    /\ line[1] = "%"
    /\ line[2] = " "
    /\ line[3] = "a"

\* C5: a split at p has 0 < p <= character_count(line), its head is the
\* first p characters, and head followed by the tail without the marker
\* that was prepended is the line.
C5_RoundTrip ==
    (pc = "wrapped" /\ is_some(ret)) =>
        LET p == unwrap(wrap_point)
            head == unwrap(ret)[1]
            tail == unwrap(ret)[2]
            rest == SubSeq(tail, Len(line_start) + 1, Len(tail))
        IN  /\ 0 < p /\ p <= Len(line)
            /\ Len(head) = p
            /\ \A n \in 1..p : head[n] = line[n]
            /\ Len(line_start) <= 1
            /\ SubSeq(tail, 1, Len(line_start)) = line_start
            /\ head \o rest = line

\* a split with a prepended marker
C5_Witness ==
    /\ pc = "wrapped"
    /\ is_some(ret)
    /\ line_start = <<"%">>
    /\ Len(unwrap(ret)[2]) >= 3

\* C6: the tail is the remainder of the line, with exactly one '%' put in
\* front if and only if a comment index c was reported and p > c.
C6_CommentPrefixIff ==
    (pc = "wrapped" /\ is_some(ret)) =>
        LET p == unwrap(wrap_point)
            tail == unwrap(ret)[2]
            remainder == SubSeq(line, p + 1, Len(line))
        IN  IF is_some(comment_index) /\ p > unwrap(comment_index)
            THEN tail = <<"%">> \o remainder
            ELSE tail = remainder

\* a split inside a trailing comment
C6_Witness ==
    /\ pc = "wrapped"
    /\ is_some(ret)
    /\ is_some(comment_index)
    /\ unwrap(wrap_point) > unwrap(comment_index)
    /\ unwrap(comment_index) > 0
    /\ Head(unwrap(ret)[2]) = "%"

\* C7: apply_wrap appends one Warn entry exactly when the wrap point is
\* none or greater than wrap; it returns none exactly when the wrap point
\* is none, and otherwise the pair split at the wrap point.
C7_WarnNeverAborts ==
    [][ApplyWrapStep =>
          LET wp == wrap_point'
              warned == CountLevel(Appended, "Warn")
          IN  /\ wp = find_wrap_point(line, args)
              /\ warned = IF wp = None \/ unwrap(wp) > args.wrap
                          THEN 1 ELSE 0
              /\ \A n \in 1..Len(Appended) :
                     Appended[n].level = "Warn" =>
                         Appended[n].message = "Line cannot be wrapped."
              /\ ret' = None <=> wp = None
              /\ wp /= None =>
                     /\ unwrap(ret')[1] = SubSeq(line, 1, unwrap(wp))
                     /\ unwrap(ret')[2] =
                            line_start' \o
                            SubSeq(line, unwrap(wp) + 1, Len(line))
              /\ (wp /= None /\ unwrap(wp) = args.wrap) => warned = 0
       ]_vars

\* a wrap point beyond wrap: warned about, and split all the same
C7_Witness ==
    /\ pc = "wrapped"
    /\ is_some(wrap_point)
    /\ unwrap(wrap_point) > args.wrap
    /\ is_some(ret)
    /\ Len(logs) > 0
    /\ logs[Len(logs)].level = "Warn"

\* C8: the log only grows at its end; a call appends at most two entries,
\* a Trace entry exactly when trace is set, the Trace entry before the Warn
\* entry; line, line context and configuration stay as they were.
C8_LogAppendOnly ==
    [][/\ Len(logs) <= Len(logs')
       /\ SubSeq(logs', 1, Len(logs)) = logs
       /\ ApplyWrapStep =>
              /\ Len(Appended) <= 2
              /\ CountLevel(Appended, "Trace") = IF args.trace THEN 1 ELSE 0
              /\ \A n \in 1..Len(Appended) :
                     Appended[n].level = "Trace" =>
                         /\ n = 1
                         /\ Appended[n].message = "Wrapping long line."
              /\ line' = line
              /\ state' = state
              /\ args' = args
      ]_vars

\* a later call that appended Trace then Warn behind earlier entries
C8_Witness ==
    /\ pc = "wrapped"
    /\ Len(logs) >= 4
    /\ logs[Len(logs) - 1].level = "Trace"
    /\ logs[Len(logs)].level = "Warn"
    /\ logs[Len(logs)].line /= logs[1].line

\* C9: resolve sets wrap_min to wrap - 10 when wrap >= 50 and to wrap
\* otherwise, within 0..255 and never above wrap; wrap and keep are kept.
C9_WrapMinDerived ==
    [][(pc = "parsed" /\ pc' = "resolved") =>
          /\ cli'.wrap_min = IF cli.wrap >= 50 THEN cli.wrap - 10
                             ELSE cli.wrap
          /\ cli'.wrap_min \in 0..255
          /\ cli'.wrap_min <= cli'.wrap
          /\ cli'.wrap = cli.wrap
          /\ cli'.keep = cli.keep
      ]_vars

\* the smallest width that is reduced
C9_Witness ==
    /\ pc = "resolved"
    /\ cli.wrap = 50
    /\ cli.wrap_min = 40
    /\ cli.keep

\* C10: the tail of a split, prepended marker included, has fewer
\* characters than the line, so each line the caller takes up again is
\* shorter than the one before.
C10_TailShorter ==
    [][/\ (ApplyWrapStep /\ is_some(ret')) =>
              Len(unwrap(ret')[2]) < Len(line)
       /\ (pc = "wrapped" /\ pc' = "line") => Len(line') < Len(line)
      ]_vars

\* a tail with a prepended marker that was wrapped again
C10_Witness ==
    /\ pc = "wrapped"
    /\ Len(logs) >= 1
    /\ logs[1].line /= line
    /\ Head(line) = "%"
    /\ is_some(ret)

\* under fair scheduling of the caller, wrapping of a line comes to an end
SpecLive == Init /\ [][Next]_vars /\ WF_vars(Next)
C10_Terminates == <>[](pc = "wrapped" /\ ~ENABLED Requeue)

====
